---- MODULE Spec2Model ----
(***************************************************************************)
(* State-machine model of the mizu exchange engine: Trader (trader.h),     *)
(* Order and exchange() (order.h, order.cpp), Orders<T> (the book, with    *)
(* its comparators) and ExchangeEngine (exchange_engine.cpp).              *)
(*                                                                         *)
(* Orders live in heap nodes of the two std::multimap books.  A node is    *)
(* modelled by its address; a freed node keeps its last contents until     *)
(* the address is handed out again, so that a reference or an iterator     *)
(* that outlives its node reads stale or re-used memory.                   *)
(***************************************************************************)
EXTENDS Integers, Sequences, FiniteSets, TLC

\* ------------------------------------------------------------------ bounds

\* unsigned arithmetic is modulo UMod (a scaled-down 2^32)
UMod == 16
MaxN == 2
\* largest time(0) value an insertion can observe
MaxClock == 1
\* API calls the client threads make, taken together
MaxCalls == 3
\* timeouts of the sweeper's wait_for
MaxSweeps == 1
\* out-of-band Trader::increaseBalance calls
MaxCredits == 1

UMax == UMod - 1

Traders == {1, 2}
ClientThreads == {1, 2}
SweeperThread == 0
Threads == ClientThreads \cup {SweeperThread}
Addrs == {1, 2, 3, 4, 5}
End == 0

SELL == TRUE
BUY == FALSE

\* calls each thread makes on a Trader directly
MaxTraderCalls == 2

\* the inputs a caller may pass, per specification
ConcInputs ==
  [clients |-> Traders, ids |-> {1, 2}, prices |-> {1}, quantities |-> {1},
   sides |-> BOOLEAN, markets |-> {FALSE}, balances |-> {1}, credits |-> {1},
   maxClock |-> 0]

SeqInputs ==
  [clients |-> Traders, ids |-> {1, 2}, prices |-> {1, 9}, quantities |-> {1},
   sides |-> BOOLEAN, markets |-> BOOLEAN, balances |-> {6}, credits |-> {1},
   maxClock |-> MaxClock]

FillInputs ==
  [clients |-> Traders, ids |-> {1}, prices |-> {0, 1, 2, 9},
   quantities |-> {0, 1, 3}, sides |-> BOOLEAN, markets |-> BOOLEAN,
   balances |-> {0, 5}, credits |-> {1}, maxClock |-> 0]

FundsInputs ==
  [clients |-> Traders, ids |-> {1}, prices |-> {1, 2}, quantities |-> {1},
   sides |-> BOOLEAN, markets |-> {FALSE}, balances |-> {0}, credits |-> {1},
   maxClock |-> 0]

HistInputs ==
  [clients |-> Traders, ids |-> {1, 2}, prices |-> {1}, quantities |-> {1, 2},
   sides |-> BOOLEAN, markets |-> {FALSE}, balances |-> {6}, credits |-> {1},
   maxClock |-> 0]

TraderInputs ==
  [clients |-> {1}, ids |-> {1}, prices |-> {1}, quantities |-> {0, 1, 2},
   sides |-> BOOLEAN, markets |-> {FALSE}, balances |-> {0, 1, 2},
   credits |-> {1, UMax}, maxClock |-> 0]

VARIABLES
  balance,      \* Trader::_balance, per trader id
  mem,          \* heap nodes: the Order held at each address
  book,         \* Orders::_orders per side: addresses in iteration order
  index,        \* Orders::_exchangeIdToOrder per side: exchange id -> address
  idxShared,    \* threads holding _exchangeIdToOrderMutex shared, per side
  ordShared,    \* threads holding _ordersMutex shared, per side
  history,      \* ExchangeEngine::_history
  marketPrice,  \* ExchangeEngine::_marketPrice
  clock,        \* last value time(0) returned
  loc,          \* per thread: program counter and locals
  ops,          \* API calls made so far, per client thread
  sweeps,       \* sweeper timeouts so far
  credits,      \* out-of-band credits so far
  initBalance,  \* history variable: balances before the first order
  cancelled,    \* history variable: serials whose cancelOrder call has returned
  acked,        \* history variable: serials whose cancelOrder returned cancelAck
  wrapped,      \* history variable: a credit wrapped a balance
  ledger,       \* history variable: sums callers debited and credited, debits made
  reply,        \* the last history query and what it returned
  shutdown      \* _terminated, a notification of _cv to deliver, ~ExchangeEngine's pc

vars == <<balance, mem, book, index, idxShared, ordShared, history, marketPrice,
          clock, loc, ops, sweeps, credits, initBalance, cancelled, acked,
          wrapped, ledger, reply, shutdown>>

\* ----------------------------------------------------------------- helpers

Min(a, b) == IF a < b THEN a ELSE b

Range(s) == {s[i] : i \in 1..Len(s)}

IndexOf(s, a) == CHOOSE i \in 1..Len(s) : s[i] = a

InsertAt(s, k, a) == SubSeq(s, 1, k - 1) \o <<a>> \o SubSeq(s, k, Len(s))

\* the node a freed or never used address holds
NoOrder ==
  [alloc |-> FALSE, client |-> 0, id |-> 0, price |-> 0, qty |-> 0, side |-> FALSE,
   market |-> FALSE, del |-> FALSE, mtx |-> -1, ts |-> 0, uid |-> 0, q0 |-> 0]

\* Order::Order: a market order's price is 0 (sell) or the largest unsigned (buy).
\* uid (a serial number) and q0 (the initial quantity) are history variables.
NewOrder(client, id, price, qty, side, market, ts, uid) ==
  [alloc |-> TRUE, client |-> client, id |-> id,
   price |-> IF market THEN (IF side THEN 0 ELSE UMax) ELSE price,
   qty |-> qty, side |-> side, market |-> market, del |-> FALSE, mtx |-> -1,
   ts |-> ts, uid |-> uid, q0 |-> qty]

\* a thread outside every call
IdleLoc ==
  [pc |-> "idle", side |-> FALSE, id |-> 0, order |-> End, item |-> End, price |-> 0,
   xb |-> End, xs |-> End, buyer |-> 0, seller |-> 0, bp |-> 0, sp |-> 0, p |-> 0,
   mp |-> 0, q |-> 0, v |-> 0, old |-> 0, new |-> 0, branch |-> FALSE, tx |-> <<>>,
   caller |-> "none", resp |-> "none", stamp |-> 0, bal |-> 0]

\* ------------------------------------------------------------ Orders<T>

\* engineUtils::default_buy_order_predicate
default_buy_order_predicate(lhs, rhs) ==
  IF lhs.side = rhs.side /\ lhs.market # rhs.market THEN lhs.market
  ELSE IF lhs.price # rhs.price THEN lhs.price > rhs.price
  ELSE lhs.ts > rhs.ts

\* engineUtils::default_sell_order_predicate
default_sell_order_predicate(lhs, rhs) ==
  IF lhs.side = rhs.side /\ lhs.market # rhs.market THEN lhs.market
  ELSE IF lhs.price # rhs.price THEN lhs.price < rhs.price
  ELSE lhs.ts > rhs.ts

Compare(side, lhs, rhs) ==
  IF side = SELL THEN default_sell_order_predicate(lhs, rhs)
  ELSE default_buy_order_predicate(lhs, rhs)

\* std::multimap::emplace: the new node goes before the first node that the
\* comparator orders after it (the upper bound), else to the end
UpperBound(side, o) ==
  LET s == book[side]
      after == {i \in 1..Len(s) : Compare(side, o, mem[s[i]])}
  IN IF after = {} THEN Len(s) + 1
     ELSE CHOOSE i \in after : \A j \in after : i <= j

\* a test that forgets the orders with nothing left
Terminal_MarkedOnly(o) == o.del

\* Orders::eraseMarkedForDeletion's test of one node
Terminal(o) == o.del \/ o.qty = 0

\* addresses some thread still refers to
Referenced(l) ==
  UNION {{l[t].order, l[t].item, l[t].xb, l[t].xs} : t \in Threads} \ {End}

\* the addresses operator new may return: any free address a thread still
\* refers to, or one free address nothing refers to
AllocChoices ==
  LET free == {a \in Addrs : ~mem[a].alloc}
      dangling == free \cap Referenced(loc)
      fresh == free \ dangling
  IN dangling \cup (IF fresh = {} THEN {} ELSE {CHOOSE a \in fresh : \A b \in fresh : a <= b})

\* freed memory that no thread can read again has no contents worth keeping
Scrub(m, l) ==
  [a \in Addrs |-> IF ~m[a].alloc /\ a \notin Referenced(l) THEN NoOrder ELSE m[a]]

\* begin() of a book
Begin(side) == IF book[side] = <<>> THEN End ELSE book[side][1]

\* operator++ of a multimap iterator.  On a node of a book it yields the next
\* node of that book.  On a node that was erased it follows the links of freed
\* memory: any node, or the end.
NextIt(a) ==
  IF \E s \in BOOLEAN : a \in Range(book[s])
  THEN LET s == CHOOSE s \in BOOLEAN : a \in Range(book[s])
           i == IndexOf(book[s], a)
       IN {IF i < Len(book[s]) THEN book[s][i + 1] ELSE End}
  ELSE {End} \cup {b \in Addrs : mem[b].alloc}

\* ------------------------------------------------------------- Trader

\* Trader::increaseBalance: _balance += value on an unsigned
increaseBalance(b, value) == (b + value) % UMod

\* a loop that also refuses a debit of the whole balance
NewBalance_Strict(oldBalance, value) ==
  IF oldBalance <= value THEN oldBalance ELSE oldBalance - value

\* Trader::decreaseBalance, the value the loop computes from the balance read
NewBalance(oldBalance, value) ==
  IF oldBalance < value THEN oldBalance ELSE oldBalance - value

\* ------------------------------------------------- getLineIntersection

\* static_cast<unsigned>(double): truncation toward zero
Trunc(n, d) ==
  LET an == IF n < 0 THEN -n ELSE n
      ad == IF d < 0 THEN -d ELSE d
      m == an \div ad
  IN IF (n < 0) = (d < 0) THEN m ELSE -m

\* the y of the intersection as a fraction, or "parallel"
getLineIntersection(x1, y1, x2, y2, x3, y3, x4, y4) ==
  LET a1 == y2 - y1
      b1 == x1 - x2
      c1 == a1 * x1 + b1 * y1
      a2 == y4 - y3
      b2 == x3 - x4
      c2 == a2 * x3 + b2 * y3
      determinant == a1 * b2 - a2 * b1
  IN IF determinant = 0 THEN [parallel |-> TRUE, num |-> 0, den |-> 1]
     ELSE [parallel |-> FALSE, num |-> a1 * c2 - a2 * c1, den |-> determinant]

\* the first order of a book that is no market order, or End
FirstLimit(side) ==
  LET s == book[side]
      lim == {i \in 1..Len(s) : ~mem[s[i]].market}
  IN IF lim = {} THEN End ELSE s[CHOOSE i \in lim : \A j \in lim : i <= j]

\* Orders::last
Last(side) == IF book[side] = <<>> THEN End ELSE book[side][Len(book[side])]

\* what dereferencing an iterator yields: the order's quantity and price, or,
\* for end(), whatever lies behind it
PointsOf(a) ==
  IF a = End THEN {<<x, y>> : x \in {0, UMax}, y \in {0, UMax}}
  ELSE {<<mem[a].qty, mem[a].price>>}

\* what dereferencing _buyOrders.last() yields
LastBuyPoints == PointsOf(Last(BUY))

\* updateMarketPrice: the iterators of (x1, y1) and (x2, y2)
DemandLine == <<FirstLimit(BUY), Last(BUY)>>

\* updateMarketPrice: the iterators of (x3, y3) and (x4, y4)
SupplyLine == <<FirstLimit(SELL), Last(BUY)>>

\* ExchangeEngine::updateMarketPrice: the iterators it dereferences for the
\* points of the two lines; End stands for end()
Dereferenced ==
  (IF DemandLine[1] = End THEN {} ELSE Range(DemandLine))
    \cup (IF SupplyLine[1] = End THEN {} ELSE Range(SupplyLine))

\* the values _marketPrice may hold after the intersection of the lines
\* through the given orders has been computed and stored
Estimate(demand, supply) ==
  LET fb == demand[1]
      fs == supply[1]
      x1 == IF fb = End THEN 0 ELSE mem[fb].qty
      y1 == IF fb = End THEN 0 ELSE mem[fb].price
      p2s == IF fb = End THEN {<<0, 0>>} ELSE PointsOf(demand[2])
      x3 == IF fs = End THEN 0 ELSE mem[fs].qty
      y3 == IF fs = End THEN 0 ELSE mem[fs].price
      p4s == IF fs = End THEN {<<0, 0>>} ELSE PointsOf(supply[2])
      Cast(e) ==
        IF e.parallel THEN {marketPrice}
        ELSE LET y == Trunc(e.num, e.den)
             IN IF 0 <= y /\ y <= UMax THEN {y}
                \* out of range: the conversion is undefined (wraps or saturates)
                ELSE {y % UMod, IF y < 0 THEN 0 ELSE UMax}
  IN UNION {Cast(getLineIntersection(x1, y1, p2[1], p2[2], x3, y3, p4[1], p4[2])) :
              p2 \in p2s, p4 \in p4s}

\* ExchangeEngine::updateMarketPrice: the values _marketPrice may hold afterwards
updateMarketPrice == Estimate(DemandLine, SupplyLine)

\* ------------------------------------------------------------ exchange()

\* the trade price: unsigned (buyPrice + sellPrice) / 2
TradePrice(buyPrice, sellPrice) == ((buyPrice + sellPrice) % UMod) \div 2

\* a quote that does not look at the buyer's balance
Quote_NoBalance(bal, price, sellQty, buyQty) == Min(sellQty, buyQty)

\* a quote that rounds the affordable quantity up
Quote_RoundUp(bal, price, sellQty, buyQty) ==
  Min((bal + price - 1) \div price, Min(sellQty, buyQty))

\* the quantity quoted from the balance read
Quote(bal, price, sellQty, buyQty) == Min(bal \div price, Min(sellQty, buyQty))

\* exchange() up to the locks: lines 13-36
ExchangePre(left, right, mp) ==
  LET l == mem[left]
      r == mem[right]
      sell == IF l.side THEN left ELSE right
      buy == IF l.side THEN right ELSE left
      buyPrice == IF mem[buy].market THEN mp ELSE mem[buy].price
      sellPrice == IF mem[sell].market THEN mp ELSE mem[sell].price
  IN [ok |-> /\ l.side # r.side
             /\ mem[sell].client # mem[buy].client
             /\ mem[sell].qty # 0 /\ mem[buy].qty # 0
             /\ buyPrice >= sellPrice
             /\ mem[buy].client # 0 /\ mem[sell].client # 0,
      xs |-> sell, xb |-> buy, bp |-> buyPrice, sp |-> sellPrice,
      buyer |-> mem[buy].client, seller |-> mem[sell].client]

\* the locals exchange() leaves behind when it returns
ClearExchange(l) ==
  [l EXCEPT !.xb = End, !.xs = End, !.buyer = 0, !.seller = 0, !.bp = 0, !.sp = 0,
            !.mp = 0, !.p = 0, !.q = 0, !.v = 0, !.old = 0, !.new = 0, !.tx = <<>>,
            !.stamp = 0, !.bal = 0]

\* the caller's loop after exchange() and addToHistory() returned: ++it
Continue(t, l) ==
  \E n \in NextIt(l.item) :
    loc' = [loc EXCEPT ![t] = [ClearExchange(l) EXCEPT !.item = n, !.pc = "iter"]]

\* ------------------------------------------------------------------- Init

\* no query has been answered yet
NoReply == [op |-> "none", n |-> 0, out |-> <<>>]

InitOf(in) ==
  /\ balance \in [Traders -> in.balances]
  /\ initBalance = balance
  /\ mem = [a \in Addrs |-> NoOrder]
  /\ book = [s \in BOOLEAN |-> <<>>]
  /\ index = [s \in BOOLEAN |-> [id \in in.ids |-> End]]
  /\ idxShared = [s \in BOOLEAN |-> {}]
  /\ ordShared = [s \in BOOLEAN |-> {}]
  /\ history = <<>>
  /\ marketPrice = 0
  /\ clock = 0
  /\ loc = [t \in Threads |-> IF t = SweeperThread THEN [IdleLoc EXCEPT !.pc = "wait"]
                               ELSE IdleLoc]
  /\ ops = [t \in ClientThreads |-> 0]
  /\ sweeps = 0
  /\ credits = 0
  /\ cancelled = {}
  /\ acked = {}
  /\ wrapped = FALSE
  /\ ledger = [debited |-> 0, credited |-> 0, seq |-> 0]
  /\ reply = NoReply
  /\ shutdown = [terminated |-> FALSE, notified |-> FALSE, dtor |-> "none"]

\* ------------------------------------------------------------ placeOrder

\* an exclusive std::lock_guard on both mutexes of a book can be taken
CanLockExclusive(side) == idxShared[side] = {} /\ ordShared[side] = {}

\* the serial number of the order thread t constructs in its next call
Uid(t) == 10 * t + ops[t] + 1

\* a test that overlooks an indexed order that is cancelled or exhausted
IsDuplicate_Live(side, id) ==
  index[side][id] # End /\ ~Terminal(mem[index[side][id]])

\* Orders::emplace, lines 184-191: the test for a duplicate exchange id
IsDuplicate(side, id) == index[side][id] # End

\* a rejection that drops the index entry of the order already there
EmplaceReject_Unindex(t, side, id) ==
  /\ loc' = [loc EXCEPT ![t] = [IdleLoc EXCEPT !.resp = "newOrderReject",
                                               !.side = side, !.id = id]]
  /\ mem' = Scrub(mem, loc')
  /\ index' = [index EXCEPT ![side][id] = End]
  /\ UNCHANGED book

\* Orders::emplace, lines 187-188, and placeOrder, lines 28-29: a duplicate
\* leaves the book alone and placeOrder returns newOrderReject
EmplaceReject(t, side, id) ==
  /\ loc' = [loc EXCEPT ![t] = [IdleLoc EXCEPT !.resp = "newOrderReject",
                                               !.side = side, !.id = id]]
  /\ mem' = Scrub(mem, loc')
  /\ UNCHANGED <<book, index>>

\* Orders::emplace, lines 190-194: the node is built, linked into the multimap
\* and entered into the index
\* an insert that forgets the index
EmplaceInsert_NoIndex(t, side, id, o) ==
  \E a \in AllocChoices :
    /\ book' = [book EXCEPT ![side] = InsertAt(@, UpperBound(side, o), a)]
    /\ UNCHANGED index
    /\ loc' = [loc EXCEPT ![t] =
                 [IdleLoc EXCEPT !.pc = "ump", !.side = side, !.order = a,
                                 !.caller = "place"]]
    /\ mem' = Scrub([mem EXCEPT ![a] = o], loc')

EmplaceInsert(t, side, id, o) ==
  \E a \in AllocChoices :
    /\ book' = [book EXCEPT ![side] = InsertAt(@, UpperBound(side, o), a)]
    /\ index' = [index EXCEPT ![side][id] = a]
    /\ loc' = [loc EXCEPT ![t] =
                 [IdleLoc EXCEPT !.pc = "ump", !.side = side, !.order = a,
                                 !.caller = "place"]]
    /\ mem' = Scrub([mem EXCEPT ![a] = o], loc')

\* placeOrder, lines 27-29: Orders::emplace under both exclusive locks, then
\* the test against end()
Emplace(t, client, id, price, qty, side, market, ts) ==
  /\ loc[t].pc = "idle"
  /\ CanLockExclusive(side)
  /\ clock' = ts
  /\ ops' = [ops EXCEPT ![t] = @ + 1]
  /\ IF IsDuplicate(side, id)
     THEN EmplaceReject(t, side, id)
     ELSE EmplaceInsert(t, side, id,
                        NewOrder(client, id, price, qty, side, market, ts, Uid(t)))
  /\ UNCHANGED <<balance, idxShared, ordShared, history, marketPrice, sweeps,
                 credits, initBalance, cancelled, acked, wrapped,
                 ledger,
                 reply,
                 shutdown>>

\* the API calls made so far
Calls == ops[1] + ops[2]

\* a client thread calls placeOrder
placeOrder_emplace(t, in) ==
  /\ Calls < MaxCalls
  /\ \E client \in in.clients, id \in in.ids, price \in in.prices,
        qty \in in.quantities, side \in in.sides, market \in in.markets,
        ts \in clock..in.maxClock :
       Emplace(t, client, id, price, qty, side, market, ts)

\* placeOrder, line 36: updateMarketPrice()
placeOrder_updateMarketPrice(t) ==
  /\ loc[t].pc = "ump"
  /\ marketPrice' \in updateMarketPrice
  /\ loc' = [loc EXCEPT ![t].pc = "lock"]
  /\ UNCHANGED <<balance, mem, book, index, idxShared, ordShared, history, clock,
                 ops, sweeps, credits, initBalance, cancelled, acked, wrapped,
                 ledger,
                 reply,
                 shutdown>>

\* placeOrder, lines 38-45/55: the shared lock on the book of newOrder's side,
\* the price of the order, the side that chooses the loop, begin() of that loop
placeOrder_lock(t) ==
  /\ loc[t].pc = "lock"
  /\ LET o == mem[loc[t].order]
     IN loc' = [loc EXCEPT ![t].pc = "iter",
                           ![t].price = IF o.market THEN marketPrice ELSE o.price,
                           ![t].branch = o.side,
                           ![t].item = Begin(IF o.side THEN BUY ELSE SELL)]
  /\ ordShared' = [ordShared EXCEPT ![loc[t].side] = @ \cup {t}]
  /\ mem' = Scrub(mem, loc')
  /\ UNCHANGED <<balance, book, index, idxShared, history, marketPrice, clock,
                 ops, sweeps, credits, initBalance, cancelled, acked, wrapped,
                 ledger,
                 reply,
                 shutdown>>

\* the loop of placeOrder stops at this item: lines 47 and 57
PlaceBreak(l) ==
  IF l.branch THEN mem[l.item].price < l.price ELSE l.price < mem[l.item].price

\* a test that stops at the sells the buy order can pay
UpdateBreak_Reversed(l) == ~(mem[l.order].price < mem[l.item].price)

\* the loop of update() stops at this sell: line 90
UpdateBreak(l) == mem[l.order].price < mem[l.item].price

\* the end of a loop over the opposite book
LoopEnd(t, l) ==
  IF l.caller = "place"
  THEN \* placeOrder returns newOrderAck and drops its shared lock
       /\ loc' = [loc EXCEPT ![t] = [IdleLoc EXCEPT !.resp = "newOrderAck"]]
       /\ ordShared' = [ordShared EXCEPT ![l.side] = @ \ {t}]
  ELSE \* update(): the next buy order, or the end of the pass
       LET nb == CHOOSE n \in NextIt(l.order) : TRUE
       IN IF l.order = End
          THEN /\ loc' = [loc EXCEPT ![t] = [IdleLoc EXCEPT !.pc = "wait"]]
               /\ ordShared' = [s \in BOOLEAN |-> ordShared[s] \ {t}]
          ELSE /\ loc' = [loc EXCEPT ![t].order = nb,
                                     ![t].item = IF nb = End THEN End ELSE Begin(SELL)]
               /\ UNCHANGED ordShared

\* one turn of the loop of placeOrder (lines 45-62) or of update() (87-96),
\* up to the locks of exchange()
Loop_iter(t) ==
  /\ loc[t].pc = "iter"
  /\ LET l == loc[t]
         pre == ExchangePre(l.order, l.item, marketPrice)
     IN IF l.item = End \/ l.order = End
        THEN LoopEnd(t, l)
        ELSE IF ~(mem[l.order].qty # 0 /\ mem[l.item].qty # 0)
        THEN Continue(t, l) /\ UNCHANGED ordShared
        ELSE IF (IF l.caller = "place" THEN PlaceBreak(l) ELSE UpdateBreak(l))
        THEN LoopEnd(t, [l EXCEPT !.item = End])
        ELSE IF ~pre.ok
        THEN Continue(t, l) /\ UNCHANGED ordShared
        ELSE /\ loc' = [loc EXCEPT ![t].pc = "lockBuy", ![t].xs = pre.xs,
                                   ![t].xb = pre.xb, ![t].bp = pre.bp,
                                   ![t].sp = pre.sp, ![t].buyer = pre.buyer,
                                   ![t].seller = pre.seller, ![t].mp = marketPrice]
             /\ UNCHANGED ordShared
  /\ mem' = Scrub(mem, loc')
  /\ UNCHANGED <<balance, book, index, idxShared, history, marketPrice, clock,
                 ops, sweeps, credits, initBalance, cancelled, acked, wrapped,
                 ledger,
                 reply,
                 shutdown>>

\* ------------------------------------------------- exchange(), locked part

Unlock(m, a, b) == [m EXCEPT ![a].mtx = -1, ![b].mtx = -1]

\* line 38: lock_guard on the buy order's mutex
\* the two operands locked left to right, whichever side they are on
LockOrder_LeftRight(l) == <<l.order, l.item>>

\* exchange(): lock_guard buyMutex(buy.getMutex()), then sellMutex
LockOrder(l) == <<l.xb, l.xs>>

exchange_lockBuy(t) ==
  /\ loc[t].pc = "lockBuy"
  /\ mem[LockOrder(loc[t])[1]].mtx = -1
  /\ mem' = [mem EXCEPT ![LockOrder(loc[t])[1]].mtx = t]
  /\ loc' = [loc EXCEPT ![t].pc = "lockSell"]
  /\ UNCHANGED <<balance, book, index, idxShared, ordShared, history, marketPrice,
                 clock, ops, sweeps, credits, initBalance, cancelled, acked,
                 wrapped,
                 ledger,
                 reply,
                 shutdown>>

\* lines 39-47: lock_guard on the sell order's mutex, the deletion marks, the price
exchange_lockSell(t) ==
  /\ loc[t].pc = "lockSell"
  /\ mem[LockOrder(loc[t])[2]].mtx = -1
  /\ LET l == loc[t]
         price == TradePrice(l.bp, l.sp)
     IN IF mem[l.xb].del \/ mem[l.xs].del \/ price = 0
        THEN /\ Continue(t, l)
             /\ mem' = Scrub(Unlock(mem, l.xb, l.xs), loc')
        ELSE /\ loc' = [loc EXCEPT ![t].pc = "quote", ![t].p = price]
             /\ mem' = [mem EXCEPT ![LockOrder(l)[2]].mtx = t]
  /\ UNCHANGED <<balance, book, index, idxShared, ordShared, history, marketPrice,
                 clock, ops, sweeps, credits, initBalance, cancelled, acked,
                 wrapped,
                 ledger,
                 reply,
                 shutdown>>

\* lines 51-56: the quantity the buyer can afford; decreaseBalance is entered
\* (lines 16-17 of trader.h: a value of 0 succeeds at once)
exchange_quote(t) ==
  /\ loc[t].pc = "quote"
  /\ LET l == loc[t]
         quantity == Quote(balance[l.buyer], l.p, mem[l.xs].qty, mem[l.xb].qty)
         value == (quantity * l.p) % UMod
     IN IF quantity = 0
        THEN /\ Continue(t, l)
             /\ mem' = Scrub(Unlock(mem, l.xb, l.xs), loc')
             /\ UNCHANGED ledger
        ELSE /\ loc' = [loc EXCEPT ![t].q = quantity, ![t].v = value,
                                   ![t].bal = balance[l.buyer],
                                   ![t].pc = IF value = 0 THEN "commit" ELSE "load",
                                   ![t].stamp = IF value = 0 THEN ledger.seq + 1 ELSE @]
             /\ ledger' = IF value = 0 THEN [ledger EXCEPT !.seq = @ + 1] ELSE ledger
             /\ UNCHANGED mem
  /\ UNCHANGED <<balance, book, index, idxShared, ordShared, history, marketPrice,
                 clock, ops, sweeps, credits, initBalance, cancelled, acked,
                 wrapped,
                 reply,
                 shutdown>>

\* trader.h lines 20-22: oldBalance = _balance and the new balance
decreaseBalance_load(t) ==
  /\ loc[t].pc = "load"
  /\ LET b == balance[loc[t].buyer]
     IN loc' = [loc EXCEPT ![t].pc = "cas", ![t].old = b,
                           ![t].new = NewBalance(b, loc[t].v)]
  /\ UNCHANGED <<balance, mem, book, index, idxShared, ordShared, history,
                 marketPrice, clock, ops, sweeps, credits, initBalance, cancelled,
                 acked, wrapped,
                 ledger,
                 reply,
                 shutdown>>

\* a debit that reports failure when it leaves nothing
DebitResult_Left(oldBalance, newBalance) == oldBalance # newBalance /\ newBalance # 0

\* what decreaseBalance returns
DebitResult(oldBalance, newBalance) == oldBalance # newBalance

\* trader.h lines 24-26: compare_exchange_strong, and the return to the caller:
\* exchange() goes on to the credit, or requotes (line 57)
decreaseBalance_cas(t) ==
  /\ loc[t].pc = "cas"
  /\ LET l == loc[t]
     IN IF balance[l.buyer] # l.old
        THEN /\ loc' = [loc EXCEPT ![t].pc = "load"]
             /\ UNCHANGED <<balance, ledger>>
        ELSE /\ balance' = [balance EXCEPT ![l.buyer] = l.new]
             /\ loc' = [loc EXCEPT ![t].pc =
                          IF l.caller = "api" THEN "idle"
                          ELSE IF DebitResult(l.old, l.new) THEN "commit" ELSE "quote",
                        ![t].resp =
                          IF l.caller # "api" THEN l.resp
                          ELSE IF DebitResult(l.old, l.new) THEN "true" ELSE "false",
                        ![t].stamp =
                          IF l.caller # "api" /\ DebitResult(l.old, l.new)
                          THEN ledger.seq + 1 ELSE @]
             /\ ledger' = IF ~DebitResult(l.old, l.new) THEN ledger
                          ELSE IF l.caller = "api"
                          THEN [ledger EXCEPT !.debited = @ + l.v]
                          ELSE [ledger EXCEPT !.seq = @ + 1]
  /\ UNCHANGED <<mem, book, index, idxShared, ordShared, history, marketPrice,
                 clock, ops, sweeps, credits, initBalance, cancelled, acked,
                 wrapped,
                 reply,
                 shutdown>>

\* Order::decreaseQuantity throws when asked for more than is left
CanDecrease(qty, quantity) == ~(qty < quantity)

\* the Transaction of line 66, with the history variables the claims read:
\* the clients, serials and initial quantities of the two orders named, who
\* paid and who was paid, and the two effective prices
MakeTransaction(l, m) ==
  [seller |-> m[l.xs].id, buyer |-> m[l.xb].id, sold |-> l.q, price |-> l.p,
   sc |-> m[l.xs].client, bc |-> m[l.xb].client, su |-> m[l.xs].uid,
   bu |-> m[l.xb].uid, sq0 |-> m[l.xs].q0, bq0 |-> m[l.xb].q0,
   payer |-> l.buyer, payee |-> l.seller, stamp |-> l.stamp,
   bEff |-> IF m[l.xb].market THEN l.mp ELSE m[l.xb].price,
   sEff |-> IF m[l.xs].market THEN l.mp ELSE m[l.xs].price]

\* lines 59-66: the seller is credited, both quantities decrease, the
\* Transaction is built and the two lock_guards unlock.  A decreaseQuantity
\* that throws unwinds through the lock_guards out of the caller.
exchange_commit(t) ==
  /\ loc[t].pc = "commit"
  /\ LET l == loc[t]
         okBuy == CanDecrease(mem[l.xb].qty, l.q)
         okSell == CanDecrease(mem[l.xs].qty, l.q)
         m1 == IF okBuy THEN [mem EXCEPT ![l.xb].qty = @ - l.q] ELSE mem
         m2 == IF okBuy /\ okSell THEN [m1 EXCEPT ![l.xs].qty = @ - l.q] ELSE m1
     IN /\ balance' = [balance EXCEPT ![l.seller] = increaseBalance(@, l.v)]
        /\ wrapped' = (wrapped \/ balance[l.seller] + l.v >= UMod)
        /\ IF okBuy /\ okSell
           THEN /\ loc' = [loc EXCEPT ![t].pc = "hist", ![t].tx = MakeTransaction(l, m2)]
                /\ mem' = Unlock(m2, l.xb, l.xs)
                /\ UNCHANGED ordShared
           ELSE /\ loc' = [loc EXCEPT ![t] =
                             [IdleLoc EXCEPT !.pc = IF l.caller = "place" THEN "idle"
                                                    ELSE "dead",
                                             !.resp = "invalid_argument"]]
                /\ ordShared' = [s \in BOOLEAN |-> ordShared[s] \ {t}]
                /\ mem' = Scrub(Unlock(m2, l.xb, l.xs), loc')
  /\ UNCHANGED <<book, index, idxShared, history, marketPrice, clock, ops, sweeps,
                 credits, initBalance, cancelled, acked,
                 ledger,
                 reply,
                 shutdown>>

\* the four fields operator== compares
IsEmpty(tx) == tx.seller = 0 /\ tx.buyer = 0 /\ tx.sold = 0 /\ tx.price = 0

\* ExchangeEngine::addToHistory, then the caller's ++it
addToHistory(t) ==
  /\ loc[t].pc = "hist"
  /\ history' = IF IsEmpty(loc[t].tx) THEN history ELSE Append(history, loc[t].tx)
  /\ Continue(t, loc[t])
  /\ mem' = Scrub(mem, loc')
  /\ UNCHANGED <<balance, book, index, idxShared, ordShared, marketPrice, clock,
                 ops, sweeps, credits, initBalance, cancelled, acked, wrapped,
                 ledger,
                 reply,
                 shutdown>>

\* ----------------------------------------------------------- cancelOrder

\* Orders::markForDeletion, lines 199-202: the shared lock on the index and find()
Find(t, id, side) ==
  /\ loc[t].pc = "idle"
  /\ ops' = [ops EXCEPT ![t] = @ + 1]
  /\ IF index[side][id] = End
     THEN /\ loc' = [loc EXCEPT ![t] = [IdleLoc EXCEPT !.resp = "cancelReject",
                                                       !.side = side, !.id = id]]
          /\ UNCHANGED idxShared
     ELSE /\ loc' = [loc EXCEPT ![t] =
                       [IdleLoc EXCEPT !.pc = "mark", !.side = side,
                                       !.item = index[side][id], !.caller = "cancel"]]
          /\ idxShared' = [idxShared EXCEPT ![side] = @ \cup {t}]
  /\ mem' = Scrub(mem, loc')
  /\ UNCHANGED <<balance, book, index, ordShared, history, marketPrice, clock,
                 sweeps, credits, initBalance, cancelled, acked, wrapped,
                 ledger,
                 reply,
                 shutdown>>

\* a client thread calls cancelOrder
cancelOrder_find(t, in) ==
  /\ Calls < MaxCalls
  /\ \E id \in in.ids, side \in in.sides : Find(t, id, side)

\* a markForDeletion that reports success whatever the quantity
MarkResult_Always(o) == TRUE

\* what markForDeletion returns: getQuantity() as a bool
MarkResult(o) == o.qty # 0

\* lines 205-207: under the order's mutex, mark and read the quantity;
\* cancelOrder maps the result to its Response
cancelOrder_mark(t) ==
  /\ loc[t].pc = "mark"
  /\ LET l == loc[t]
         a == l.item
     IN /\ mem[a].mtx = -1
        /\ loc' = [loc EXCEPT ![t] =
                     [IdleLoc EXCEPT !.resp = IF MarkResult(mem[a]) THEN "cancelAck"
                                              ELSE "cancelReject"]]
        /\ mem' = Scrub([mem EXCEPT ![a].del = TRUE], loc')
        /\ idxShared' = [idxShared EXCEPT ![l.side] = @ \ {t}]
        /\ cancelled' = cancelled \cup {mem[a].uid}
        /\ acked' = IF MarkResult(mem[a]) THEN acked \cup {mem[a].uid} ELSE acked
  /\ UNCHANGED <<balance, book, index, ordShared, history, marketPrice, clock,
                 ops, sweeps, credits, initBalance, wrapped,
                 ledger,
                 reply,
                 shutdown>>

\* ------------------------------------------------------------- update()

\* the nodes Orders::eraseMarkedForDeletion collects
ToDelete(side) == {a \in Range(book[side]) : Terminal(mem[a])}

\* an erase of the ids of every order of the book, terminal or not
IdsToDelete_All(side) == {mem[a].id : a \in Range(book[side])}

\* Orders::eraseMarkedForDeletion: exchangeIdToDelete, the ids of the orders
\* to delete that the index holds
IdsToDelete(side) ==
  {id \in DOMAIN index[side] :
     index[side][id] # End /\ \E a \in ToDelete(side) : mem[a].id = id}

\* Orders::eraseMarkedForDeletion under both exclusive locks
eraseMarkedForDeletion(t, side, from, to) ==
  /\ loc[t].pc = from
  /\ CanLockExclusive(side)
  /\ LET gone == ToDelete(side)
     IN /\ book' = [book EXCEPT ![side] = SelectSeq(@, LAMBDA a : a \notin gone)]
        /\ index' = [index EXCEPT ![side] =
                       [id \in DOMAIN @ |->
                          IF id \in IdsToDelete(side) THEN End ELSE @[id]]]
        /\ loc' = [loc EXCEPT ![t].pc = to, ![t].caller = "update"]
        /\ mem' = Scrub([a \in Addrs |-> IF a \in gone THEN [mem[a] EXCEPT !.alloc = FALSE]
                                         ELSE mem[a]], loc')

\* the sweeper's wait_for timed out: update(), line 77
update_eraseBuy ==
  /\ sweeps < MaxSweeps
  /\ sweeps' = sweeps + 1
  /\ eraseMarkedForDeletion(SweeperThread, BUY, "wait", "eraseSell")
  /\ UNCHANGED <<balance, idxShared, ordShared, history, marketPrice, clock, ops,
                 credits, initBalance, cancelled, acked, wrapped,
                 ledger,
                 reply,
                 shutdown>>

\* update(), line 78
update_eraseSell ==
  /\ eraseMarkedForDeletion(SweeperThread, SELL, "eraseSell", "ulock")
  /\ UNCHANGED <<balance, idxShared, ordShared, history, marketPrice, clock, ops,
                 sweeps, credits, initBalance, cancelled, acked, wrapped,
                 ledger,
                 reply,
                 shutdown>>

\* update(), lines 84-88: both shared locks and the two begin()
update_lock ==
  /\ loc[SweeperThread].pc = "ulock"
  /\ ordShared' = [s \in BOOLEAN |-> ordShared[s] \cup {SweeperThread}]
  /\ loc' = [loc EXCEPT ![SweeperThread].pc = "iter",
                        ![SweeperThread].order = Begin(BUY),
                        ![SweeperThread].item =
                           IF Begin(BUY) = End THEN End ELSE Begin(SELL)]
  /\ mem' = Scrub(mem, loc')
  /\ UNCHANGED <<balance, book, index, idxShared, history, marketPrice, clock,
                 ops, sweeps, credits, initBalance, cancelled, acked, wrapped,
                 ledger,
                 reply,
                 shutdown>>

\* ------------------------------------------------ out-of-band Trader calls

\* a caller credits a trader: Trader::increaseBalance
Credit(in) ==
  /\ credits < MaxCredits
  /\ credits' = credits + 1
  /\ \E tr \in Traders, value \in in.credits :
       /\ balance' = [balance EXCEPT ![tr] = increaseBalance(@, value)]
       /\ wrapped' = (wrapped \/ balance[tr] + value >= UMod)
  /\ UNCHANGED <<mem, book, index, idxShared, ordShared, history, marketPrice,
                 clock, loc, ops, sweeps, initBalance, cancelled, acked,
                 ledger,
                 reply,
                 shutdown>>

\* ------------------------------------------------------------------ Spec

Step(t) ==
  \/ placeOrder_updateMarketPrice(t)
  \/ placeOrder_lock(t)
  \/ Loop_iter(t)
  \/ exchange_lockBuy(t)
  \/ exchange_lockSell(t)
  \/ exchange_quote(t)
  \/ decreaseBalance_load(t)
  \/ decreaseBalance_cas(t)
  \/ exchange_commit(t)
  \/ addToHistory(t)
  \/ cancelOrder_mark(t)

Sweeper ==
  \/ update_eraseBuy
  \/ update_eraseSell
  \/ update_lock

\* client threads and the sweeper, freely interleaved
Init == InitOf(ConcInputs)

Next ==
  \/ \E t \in ClientThreads : placeOrder_emplace(t, ConcInputs)
  \/ \E t \in ClientThreads : cancelOrder_find(t, ConcInputs)
  \/ \E t \in Threads : Step(t)
  \/ Sweeper

Spec == Init /\ [][Next]_vars

\* ------------------------------------------------- scripted client threads

\* a thread makes the next call of its script
Call(t, script) ==
  /\ ops[t] < Len(script[t])
  /\ LET c == script[t][ops[t] + 1]
     IN IF c.op = "place"
        THEN Emplace(t, c.client, c.id, c.price, c.qty, c.side, c.market, clock)
        ELSE Find(t, c.id, c.side)

PlaceCall(client, id, price, qty, side) ==
  [op |-> "place", client |-> client, id |-> id, price |-> price, qty |-> qty,
   side |-> side, market |-> FALSE]

CancelCall(id, side) ==
  [op |-> "cancel", client |-> 0, id |-> id, price |-> 0, qty |-> 0, side |-> side,
   market |-> FALSE]

\* thread 1 places one sell order for trader 1 while thread 2 places a buy order
\* and a sell order for trader 2, cancels the buy order, places a buy order for
\* trader 1 and cancels it; the sweeper runs
RaceScript ==
  [t \in ClientThreads |->
     IF t = 1 THEN <<PlaceCall(1, 1, 1, 1, SELL)>>
     ELSE <<PlaceCall(2, 1, 1, 1, BUY), PlaceCall(2, 2, 1, 1, SELL), CancelCall(1, BUY),
            PlaceCall(1, 2, 1, 1, BUY), CancelCall(2, BUY)>>]

NextRace ==
  \/ \E t \in ClientThreads : Call(t, RaceScript)
  \/ \E t \in Threads : Step(t)
  \/ Sweeper

SpecRace == Init /\ [][NextRace]_vars

\* thread 1 places one sell order for trader 1 while thread 2 places a buy order
\* for trader 2, cancels it, places a buy order for trader 1 and cancels it; the
\* sweeper runs
CancelScript ==
  [t \in ClientThreads |->
     IF t = 1 THEN <<PlaceCall(1, 1, 1, 1, SELL)>>
     ELSE <<PlaceCall(2, 1, 1, 1, BUY), CancelCall(1, BUY),
            PlaceCall(1, 2, 1, 1, BUY), CancelCall(2, BUY)>>]

NextCancel ==
  \/ \E t \in ClientThreads : Call(t, CancelScript)
  \/ \E t \in Threads : Step(t)
  \/ Sweeper

SpecCancel == Init /\ [][NextCancel]_vars

\* the scripted threads and the sweeper under a fair scheduler: wait_for times
\* out again and again, and a thread that can step does
FairThreads ==
  /\ WF_vars(Sweeper)
  /\ \A t \in Threads : WF_vars(Step(t))
  /\ \A t \in ClientThreads : WF_vars(Call(t, CancelScript))

SpecSweep == Init /\ [][NextCancel]_vars /\ FairThreads

\* ------------------------------------------------- one call at a time

\* no call and no sweeper pass is under way
AllQuiet ==
  /\ \A t \in ClientThreads : loc[t].pc = "idle"
  /\ loc[SweeperThread].pc \in {"wait", "dead"}

InitSeq == InitOf(SeqInputs)

\* one caller; every call and every sweeper pass runs to its end alone
NextSeq ==
  \/ AllQuiet /\ placeOrder_emplace(1, SeqInputs)
  \/ AllQuiet /\ cancelOrder_find(1, SeqInputs)
  \/ AllQuiet /\ Credit(SeqInputs)
  \/ AllQuiet /\ update_eraseBuy
  \/ update_eraseSell
  \/ update_lock
  \/ \E t \in Threads : Step(t)

SpecSeq == InitSeq /\ [][NextSeq]_vars

\* ------------------------------- one call at a time, a scheduled sweeper

InitFunds == InitOf(FundsInputs)

\* the sweeper's wait_for times out while no call is under way
SweepStart == AllQuiet /\ update_eraseBuy

NextFunds ==
  \/ AllQuiet /\ placeOrder_emplace(1, FundsInputs)
  \/ AllQuiet /\ cancelOrder_find(1, FundsInputs)
  \/ AllQuiet /\ Credit(FundsInputs)
  \/ SweepStart
  \/ update_eraseSell
  \/ update_lock
  \/ \E t \in Threads : Step(t)

\* wait_for times out again and again, and every thread that can step does
FairSweeper ==
  /\ WF_vars(SweepStart)
  /\ WF_vars(update_eraseSell)
  /\ WF_vars(update_lock)
  /\ \A t \in Threads : WF_vars(Step(t))

SpecFunds == InitFunds /\ [][NextFunds]_vars /\ FairSweeper

\* ------------------------------------------- placeOrder calls on their own

\* the steps of one placeOrder call after its emplace
MatchStep(t) ==
  \/ placeOrder_updateMarketPrice(t)
  \/ placeOrder_lock(t)
  \/ Loop_iter(t)
  \/ exchange_lockBuy(t)
  \/ exchange_lockSell(t)
  \/ exchange_quote(t)
  \/ decreaseBalance_load(t)
  \/ decreaseBalance_cas(t)
  \/ exchange_commit(t)
  \/ addToHistory(t)

InitFill == InitOf(FillInputs)

\* one caller places orders, each call running to its end; no sweeper
NextFill ==
  \/ AllQuiet /\ placeOrder_emplace(1, FillInputs)
  \/ MatchStep(1)

SpecFill == InitFill /\ [][NextFill]_vars

\* ------------------------------------------------- history queries
\* struct Transaction: the four fields a caller reads
Transaction(tx) ==
  [seller |-> tx.seller, buyer |-> tx.buyer, sold |-> tx.sold, price |-> tx.price]

Transactions(h) == [i \in 1..Len(h) |-> Transaction(h[i])]

\* what may lie where an element is read that does not exist
Garbage == [seller : {0, 1}, buyer : {0}, sold : {0, 1}, price : {0}]

\* ExchangeEngine::getLastTransactions: {begin, next(begin, min(n, size))}
getLastTransactions(h, n) == SubSeq(h, 1, Min(n, Len(h)))

\* ExchangeEngine::getLastTransaction: _history.back(); on an empty list back()
\* reads an element that is not there
getLastTransaction(h) ==
  IF h # <<>> THEN {Transaction(h[Len(h)])} ELSE Garbage

Query_getLastTransactions ==
  /\ \E n \in 0..MaxN :
       reply' = [op |-> "getLastTransactions", n |-> n,
                 out |-> Transactions(getLastTransactions(history, n))]
  /\ UNCHANGED <<balance, mem, book, index, idxShared, ordShared, history,
                 marketPrice, clock, loc, ops, sweeps, credits, initBalance,
                 cancelled, acked, wrapped, ledger,
                 shutdown>>

Query_getLastTransaction ==
  /\ \E tx \in getLastTransaction(history) :
       reply' = [op |-> "getLastTransaction", n |-> 1, out |-> <<tx>>]
  /\ UNCHANGED <<balance, mem, book, index, idxShared, ordShared, history,
                 marketPrice, clock, loc, ops, sweeps, credits, initBalance,
                 cancelled, acked, wrapped, ledger,
                 shutdown>>

InitHist == InitOf(HistInputs)

\* one caller places orders and reads the history between its calls
NextHist ==
  \/ AllQuiet /\ placeOrder_emplace(1, HistInputs)
  \/ MatchStep(1)
  \/ AllQuiet /\ Query_getLastTransactions
  \/ AllQuiet /\ Query_getLastTransaction

SpecHist == InitHist /\ [][NextHist]_vars

\* ------------------------------------------------- tear-down
\* The sweeper's loop with its head in separate steps.  At "wait" the sweeper
\* is between two passes, about to test _terminated.
StopInputs ==
  [clients |-> Traders, ids |-> {1}, prices |-> {1}, quantities |-> {1},
   sides |-> BOOLEAN, markets |-> {FALSE}, balances |-> {1}, credits |-> {1},
   maxClock |-> 0]

\* no call is under way and the sweeper is outside update()
Settled ==
  /\ \A t \in ClientThreads : loc[t].pc = "idle"
  /\ loc[SweeperThread].pc \in {"wait", "lockcv", "sleep", "exit"}

\* the owner of the engine calls placeOrder before it destroys the engine
Stop_placeOrder ==
  /\ Settled
  /\ shutdown.dtor = "none"
  /\ placeOrder_emplace(1, StopInputs)

\* while (!_terminated)
Sweeper_test ==
  /\ loc[SweeperThread].pc = "wait"
  /\ loc' = [loc EXCEPT ![SweeperThread].pc =
               IF shutdown.terminated THEN "exit" ELSE "lockcv"]
  /\ UNCHANGED <<balance, mem, book, index, idxShared, ordShared, history,
                 marketPrice, clock, ops, sweeps, credits, initBalance, cancelled,
                 acked, wrapped, ledger, reply, shutdown>>

\* unique_lock lk(_cvMutex); _cv.wait_for(lk, 5 s) starts to wait: only a
\* notification made from now on reaches it
Sweeper_wait_for ==
  /\ loc[SweeperThread].pc = "lockcv"
  /\ loc' = [loc EXCEPT ![SweeperThread].pc = "sleep"]
  /\ shutdown' = [shutdown EXCEPT !.notified = FALSE]
  /\ UNCHANGED <<balance, mem, book, index, idxShared, ordShared, history,
                 marketPrice, clock, ops, sweeps, credits, initBalance, cancelled,
                 acked, wrapped, ledger, reply>>

\* wait_for returns no_timeout, woken by a notification or spuriously: continue
Sweeper_no_timeout ==
  /\ loc[SweeperThread].pc = "sleep"
  /\ loc' = [loc EXCEPT ![SweeperThread].pc = "wait"]
  /\ shutdown' = [shutdown EXCEPT !.notified = FALSE]
  /\ UNCHANGED <<balance, mem, book, index, idxShared, ordShared, history,
                 marketPrice, clock, ops, sweeps, credits, initBalance, cancelled,
                 acked, wrapped, ledger, reply>>

\* wait_for returns timeout after the whole interval, and update() starts.
\* Passes are counted up to MaxSweeps until the flag is set; after that at
\* most one more pass can start.
Sweeper_timeout ==
  /\ ~shutdown.notified
  /\ sweeps < MaxSweeps \/ shutdown.terminated
  /\ sweeps' = sweeps + 1
  /\ eraseMarkedForDeletion(SweeperThread, BUY, "sleep", "eraseSell")
  /\ UNCHANGED <<balance, idxShared, ordShared, history, marketPrice, clock, ops,
                 credits, initBalance, cancelled, acked, wrapped, ledger, reply,
                 shutdown>>

\* ~ExchangeEngine: _terminated = true
Dtor_set ==
  /\ \A t \in ClientThreads : loc[t].pc = "idle"
  /\ shutdown.dtor = "none"
  /\ shutdown' = [shutdown EXCEPT !.terminated = TRUE, !.dtor = "notify"]
  /\ UNCHANGED <<balance, mem, book, index, idxShared, ordShared, history,
                 marketPrice, clock, loc, ops, sweeps, credits, initBalance,
                 cancelled, acked, wrapped, ledger, reply>>

\* ~ExchangeEngine: _cv.notify_all() wakes the threads that are waiting now
Dtor_notify ==
  /\ shutdown.dtor = "notify"
  /\ shutdown' = [shutdown EXCEPT !.notified = (loc[SweeperThread].pc = "sleep"),
                                  !.dtor = "join"]
  /\ UNCHANGED <<balance, mem, book, index, idxShared, ordShared, history,
                 marketPrice, clock, loc, ops, sweeps, credits, initBalance,
                 cancelled, acked, wrapped, ledger, reply>>

\* ~ExchangeEngine: _th->join() returns once the sweeper's function has returned
Dtor_join ==
  /\ shutdown.dtor = "join"
  /\ loc[SweeperThread].pc = "exit"
  /\ shutdown' = [shutdown EXCEPT !.dtor = "done"]
  /\ UNCHANGED <<balance, mem, book, index, idxShared, ordShared, history,
                 marketPrice, clock, loc, ops, sweeps, credits, initBalance,
                 cancelled, acked, wrapped, ledger, reply>>

InitStop == InitOf(StopInputs)

NextStop ==
  \/ Stop_placeOrder
  \/ \E t \in Threads : MatchStep(t)
  \/ Sweeper_test
  \/ Sweeper_wait_for
  \/ Sweeper_no_timeout
  \/ Sweeper_timeout
  \/ update_eraseSell
  \/ update_lock
  \/ Dtor_set
  \/ Dtor_notify
  \/ Dtor_join

\* the scheduler lets every thread that can step do so; a sleep ends
FairStop ==
  /\ \A t \in Threads : WF_vars(MatchStep(t))
  /\ WF_vars(Sweeper_test) /\ WF_vars(Sweeper_wait_for)
  /\ WF_vars(Sweeper_no_timeout \/ Sweeper_timeout)
  /\ WF_vars(update_eraseSell) /\ WF_vars(update_lock)
  /\ WF_vars(Dtor_notify) /\ WF_vars(Dtor_join)

SpecStop == InitStop /\ [][NextStop]_vars /\ FairStop

\* ------------------------------------------------- two sellers, one buyer
OrderInputs ==
  [clients |-> Traders, ids |-> {1, 2}, prices |-> {1}, quantities |-> {1, 2},
   sides |-> BOOLEAN, markets |-> {FALSE}, balances |-> {2}, credits |-> {1},
   maxClock |-> 0]

\* thread 2 places a buy order for two and then sells one; thread 1 sells one
OrderScript ==
  [t \in ClientThreads |->
     IF t = 1 THEN <<PlaceCall(1, 1, 1, 1, SELL)>>
     ELSE <<PlaceCall(2, 1, 1, 2, BUY), PlaceCall(1, 2, 1, 1, SELL)>>]

InitOrder == InitOf(OrderInputs)

NextOrder ==
  \/ \E t \in ClientThreads : Call(t, OrderScript)
  \/ \E t \in Threads : MatchStep(t)
  \/ Sweeper

SpecOrder == InitOrder /\ [][NextOrder]_vars

\* ------------------------------------------------- a market order and a moving price
PriceInputs ==
  [clients |-> Traders, ids |-> {1, 2, 3}, prices |-> {1, 2, 3, 5},
   quantities |-> {1, 2}, sides |-> BOOLEAN, markets |-> BOOLEAN, balances |-> {6},
   credits |-> {1}, maxClock |-> 0]

MarketCall(client, id, qty, side) ==
  [op |-> "place", client |-> client, id |-> id, price |-> 0, qty |-> qty,
   side |-> side, market |-> TRUE]

\* thread 1 places a market buy order; thread 2 places two limit sell orders
\* and then two limit buy orders, all of trader 1
PriceScript ==
  [t \in ClientThreads |->
     IF t = 1 THEN <<MarketCall(2, 1, 1, BUY)>>
     ELSE <<PlaceCall(1, 1, 1, 1, SELL), PlaceCall(1, 2, 2, 1, SELL),
            PlaceCall(1, 2, 5, 1, BUY), PlaceCall(1, 3, 3, 2, BUY)>>]

InitPrice == InitOf(PriceInputs)

NextPrice ==
  \/ \E t \in ClientThreads : Call(t, PriceScript)
  \/ \E t \in Threads : MatchStep(t)
  \/ Sweeper

SpecPrice == InitPrice /\ [][NextPrice]_vars

\* ------------------------------------------- threads sharing one Trader

\* a thread calls Trader::decreaseBalance: trader.h lines 16-17, a value of 0
\* returns true at once
Trader_decreaseBalance(t, in) ==
  /\ loc[t].pc = "idle"
  /\ ops[t] < MaxTraderCalls
  /\ ops' = [ops EXCEPT ![t] = @ + 1]
  /\ \E tr \in in.clients, value \in in.quantities :
       loc' = [loc EXCEPT ![t] =
                 IF value = 0 THEN [IdleLoc EXCEPT !.resp = "true", !.caller = "api"]
                 ELSE [IdleLoc EXCEPT !.pc = "load", !.buyer = tr, !.v = value,
                                      !.caller = "api"]]
  /\ UNCHANGED <<balance, mem, book, index, idxShared, ordShared, history,
                 marketPrice, clock, sweeps, credits, initBalance, cancelled, acked,
                 wrapped, ledger,
                 reply,
                 shutdown>>

\* a thread calls Trader::increaseBalance: one atomic +=
Trader_increaseBalance(t, in) ==
  /\ loc[t].pc = "idle"
  /\ ops[t] < MaxTraderCalls
  /\ ops' = [ops EXCEPT ![t] = @ + 1]
  /\ \E tr \in in.clients, value \in in.credits :
       /\ balance' = [balance EXCEPT ![tr] = increaseBalance(@, value)]
       /\ wrapped' = (wrapped \/ balance[tr] + value >= UMod)
       /\ ledger' = [ledger EXCEPT !.credited = @ + value]
  /\ loc' = [loc EXCEPT ![t] = IdleLoc]
  /\ UNCHANGED <<mem, book, index, idxShared, ordShared, history, marketPrice,
                 clock, sweeps, credits, initBalance, cancelled, acked,
                 reply,
                 shutdown>>

InitTrader == InitOf(TraderInputs)

NextTrader ==
  \/ \E t \in ClientThreads : Trader_decreaseBalance(t, TraderInputs)
  \/ \E t \in ClientThreads : Trader_increaseBalance(t, TraderInputs)
  \/ \E t \in ClientThreads : decreaseBalance_load(t)
  \/ \E t \in ClientThreads : decreaseBalance_cas(t)

SpecTrader == InitTrader /\ [][NextTrader]_vars

\* ------------------------- a placeOrder call while the buyer is debited

RetryInputs ==
  [clients |-> {1}, ids |-> {1, 2}, prices |-> {1}, quantities |-> {0, 1, 2},
   sides |-> BOOLEAN, markets |-> {FALSE}, balances |-> {2, 3}, credits |-> {1},
   maxClock |-> 0]

\* thread 1 places a sell order for two for trader 2 and a buy order for two
\* for trader 1; thread 2 calls decreaseBalance on trader 1
RetryScript ==
  [t \in ClientThreads |->
     IF t = 1 THEN <<PlaceCall(2, 1, 1, 2, SELL), PlaceCall(1, 1, 1, 2, BUY)>>
     ELSE <<>>]

InitRetry == InitOf(RetryInputs)

NextRetry ==
  \/ Call(1, RetryScript)
  \/ Trader_decreaseBalance(2, RetryInputs)
  \/ \E t \in ClientThreads : MatchStep(t)

\* a thread that can step does
FairRetry == \A t \in ClientThreads : WF_vars(MatchStep(t))

SpecRetry == InitRetry /\ [][NextRetry]_vars /\ FairRetry

\* ----------------------------------------------------------------- claims

RECURSIVE SumSeq(_, _)
\* the sum of f over the elements of a sequence
SumSeq(f(_), s) == IF s = <<>> THEN 0 ELSE f(Head(s)) + SumSeq(f, Tail(s))

\* q*p of the recorded transactions whose seller (buyer) order belongs to tr
Sold(tr) == SumSeq(LAMBDA h : IF h.sc = tr THEN h.sold * h.price ELSE 0, history)
Bought(tr) == SumSeq(LAMBDA h : IF h.bc = tr THEN h.sold * h.price ELSE 0, history)

\* no exchange() call is between its debit and its history append
Quiescent == \A t \in Threads : loc[t].pc \notin {"commit", "hist"}

\* C1: conservation of funds.  With no call between its debit and its history
\* append, no out-of-band credit and no wrapped balance, every balance is the
\* initial balance plus what the trader's orders sold minus what they bought
\* according to the history.
C1_Conservation ==
  (Quiescent /\ credits = 0 /\ ~wrapped) =>
     \A tr \in Traders : balance[tr] = initBalance[tr] + Sold(tr) - Bought(tr)

\* C3: no self-trade.  Every recorded transaction names a seller order and a
\* buyer order of different clients.
C3_NoSelfTrade == \A i \in 1..Len(history) : history[i].sc # history[i].bc

\* the transactions committed so far: the history and those built but not yet
\* appended
Pending == {t \in Threads : loc[t].pc = "hist"}

RECURSIVE SumSet(_, _)
SumSet(f(_), S) ==
  IF S = {} THEN 0 ELSE LET x == CHOOSE x \in S : TRUE IN f(x) + SumSet(f, S \ {x})

\* the quantity the committed trades naming order uid sold
Traded(uid) ==
  SumSeq(LAMBDA h : IF uid \in {h.su, h.bu} THEN h.sold ELSE 0, history)
  + SumSet(LAMBDA t : IF uid \in {loc[t].tx.su, loc[t].tx.bu} THEN loc[t].tx.sold ELSE 0,
           Pending)

\* C5: quantity monotonicity.  The remaining quantity of an order never
\* increases and never exceeds its initial value, decreaseQuantity never
\* throws, and the initial quantity is the remaining quantity plus the
\* quantities of the committed trades that name the order.
C5_QuantityMonotone ==
  /\ [](\A a \in Addrs : mem[a].alloc =>
           /\ mem[a].qty <= mem[a].q0
           /\ mem[a].q0 = mem[a].qty + Traded(mem[a].uid))
  /\ [](\A t \in Threads : loc[t].resp # "invalid_argument")
  /\ [][\A a \in Addrs :
          (mem[a].alloc /\ mem'[a].alloc /\ mem'[a].uid = mem[a].uid)
             => mem'[a].qty <= mem[a].qty]_vars

\* C6: cancel versus match.  No debit commits a trade on an order whose
\* cancelOrder call has returned, and no transaction names an order of initial
\* quantity 1 for which cancelOrder returned cancelAck.
C6_CancelVersusMatch ==
  /\ [][\A t \in Threads :
          (loc[t].pc = "cas" /\ loc'[t].pc = "commit")
             => /\ mem[loc[t].xb].uid \notin cancelled
                /\ mem[loc[t].xs].uid \notin cancelled]_vars
  /\ [](\A i \in 1..Len(history) :
          /\ ~(history[i].bq0 = 1 /\ history[i].bu \in acked)
          /\ ~(history[i].sq0 = 1 /\ history[i].su \in acked))

\* C2: debit is all-or-nothing and linearizable.  The compare-exchange that
\* ends a decreaseBalance(v), v > 0, returns true and subtracts v when the
\* balance at that instant is at least v, and returns false and leaves the
\* balance alone otherwise; a failed compare-exchange changes no balance; the
\* successful debits never total more than the initial balance plus the
\* credits applied, and no balance leaves the unsigned range.
C2_DebitLinearizable ==
  /\ [][\A t \in ClientThreads :
          (loc[t].pc = "cas" /\ loc[t].caller = "api" /\ loc'[t] # loc[t]) =>
             LET tr == loc[t].buyer
                 v == loc[t].v
             IN IF loc'[t].pc = "idle"
                THEN IF balance[tr] >= v
                     THEN loc'[t].resp = "true" /\ balance'[tr] = balance[tr] - v
                     ELSE loc'[t].resp = "false" /\ balance'[tr] = balance[tr]
                ELSE loc'[t].pc = "load" /\ balance' = balance]_vars
  /\ [](ledger.debited <= initBalance[1] + ledger.credited)
  /\ [](\A tr \in Traders : balance[tr] \in 0..UMax)

\* a debit succeeded and, after a credit, another debit failed
C2_Witness ==
  \E t, u \in ClientThreads :
    /\ loc[t].pc = "idle" /\ loc[t].resp = "true" /\ loc[t].v > 0
    /\ loc[u].pc = "idle" /\ loc[u].resp = "false"
    /\ ledger.credited > 0 /\ ledger.debited > 0

\* C4: price crossing.  Every recorded transaction has a price no higher than
\* the buy order's effective price and no lower than the sell order's.
C4_PriceCrossing ==
  \A i \in 1..Len(history) :
    history[i].bEff >= history[i].price /\ history[i].price >= history[i].sEff

\* C7: idempotent cancel.  A cancelOrder on an order whose earlier cancelOrder
\* has returned answers cancelReject and leaves the order as it was.
C7_IdempotentCancel ==
  [][\A t \in ClientThreads :
       (loc[t].pc = "mark" /\ loc'[t].pc = "idle"
          /\ mem[loc[t].item].uid \in cancelled)
         => /\ loc'[t].resp = "cancelReject"
            /\ mem'[loc[t].item] = mem[loc[t].item]]_vars

\* what a call must leave alone: book membership, balances, history and the
\* quantity of every order
SameHoldings ==
  /\ book' = book /\ index' = index /\ balance' = balance /\ history' = history
  /\ \A a \in Addrs : mem[a].alloc => mem'[a].alloc /\ mem'[a].qty = mem[a].qty

C9_UniqueIds ==
  /\ [](\A s \in BOOLEAN : \A i, j \in 1..Len(book[s]) :
          i # j => mem[book[s][i]].id # mem[book[s][j]].id)
  /\ [][\A t \in ClientThreads :
          /\ (loc[t].pc = "idle" /\ loc'[t].pc = "ump") =>
               index[loc'[t].side][mem'[loc'[t].order].id] = End
          /\ (ops'[t] # ops[t] /\ loc'[t].resp = "newOrderReject") =>
               index[loc'[t].side][loc'[t].id] # End]_vars

\* a placeOrder was rejected for an id whose indexed order is cancelled or
\* exhausted and not yet swept
C9_Witness ==
  \E t \in ClientThreads :
    /\ loc[t].pc = "idle" /\ loc[t].resp = "newOrderReject"
    /\ index[loc[t].side][loc[t].id] # End
    /\ Terminal(mem[index[loc[t].side][loc[t].id]])

\* C10: a rejected placeOrder has no effect.  The step that answers
\* newOrderReject leaves books, indexes, market price, balances, quantities
\* and history as they were and returns without entering the matcher.
C10_RejectNoEffect ==
  [][\A t \in ClientThreads :
       (ops'[t] # ops[t] /\ loc'[t].resp = "newOrderReject") =>
          /\ SameHoldings
          /\ marketPrice' = marketPrice
          /\ loc[t].pc = "idle" /\ loc'[t].pc = "idle"
          /\ loc'[t].xb = End /\ loc'[t].xs = End]_vars

\* a placeOrder was rejected after a trade was recorded
C10_Witness ==
  \E t \in ClientThreads :
    /\ loc[t].pc = "idle" /\ loc[t].resp = "newOrderReject"
    /\ history # <<>>

\* C11: fill quantity.  exchange(), alone on two orders that are not marked,
\* trades at p = (buyPrice + sellPrice) / 2 in unsigned arithmetic the quantity
\* q = min(sell quantity, buy quantity, buyer balance / p): the buyer pays q*p,
\* the seller receives q*p, both orders lose q and Transaction(sell id, buy
\* id, q, p) is returned and recorded; when p = 0 or q = 0, and only then, it
\* returns the empty transaction and changes nothing.
C11_FillQuantity ==
  [][\A t \in Threads :
       LET l == loc[t]
           buy == mem[l.xb]
           sell == mem[l.xs]
           bEff == IF buy.market THEN l.mp ELSE buy.price
           sEff == IF sell.market THEN l.mp ELSE sell.price
           p == ((bEff + sEff) % UMod) \div 2
           q == Min(Min(sell.qty, buy.qty), balance[l.buyer] \div l.p)
       IN /\ (l.pc = "lockSell" /\ loc'[t].pc # "lockSell"
               /\ ~buy.del /\ ~sell.del) =>
               IF p = 0 THEN loc'[t].pc = "iter" /\ SameHoldings
               ELSE loc'[t].pc = "quote" /\ loc'[t].p = p /\ SameHoldings
          /\ (l.pc = "quote" /\ loc'[t].pc # "quote") =>
               IF q = 0 THEN loc'[t].pc = "iter" /\ SameHoldings
               ELSE loc'[t].pc = "load" /\ loc'[t].q = q /\ loc'[t].v = q * l.p
                    /\ SameHoldings
          /\ (l.pc = "load" /\ loc'[t].pc # "load") =>
               loc'[t].pc = "cas" /\ SameHoldings
          /\ (l.pc = "cas" /\ loc'[t].pc # "cas") =>
               /\ loc'[t].pc = "commit"
               /\ balance' = [balance EXCEPT ![l.buyer] = @ - l.q * l.p]
          /\ (l.pc = "commit" /\ loc'[t].pc # "commit") =>
               /\ loc'[t].pc = "hist"
               /\ balance' = [balance EXCEPT ![l.seller] = @ + l.q * l.p]
               /\ mem'[l.xb].qty = buy.qty - l.q
               /\ mem'[l.xs].qty = sell.qty - l.q
               /\ loc'[t].tx.seller = sell.id /\ loc'[t].tx.buyer = buy.id
               /\ loc'[t].tx.sold = l.q /\ loc'[t].tx.price = l.p
               /\ l.q > 0 /\ l.p > 0
          /\ (l.pc = "hist" /\ loc'[t].pc # "hist") =>
               history' = Append(history, l.tx)]_vars

\* a trade of 2 units was recorded that the buyer's balance, not the
\* quantities, limited: both orders keep a remainder
C11_Witness ==
  /\ history # <<>> /\ history[1].sold = 2
  /\ \A s \in BOOLEAN : book[s] # <<>> /\ mem[book[s][1]].qty > 0

\* a buy and a sell order of different clients, both live, cross at a
\* mid-price of at least 1 that the buyer can pay for one unit
CanTrade ==
  \E b \in Range(book[BUY]), a \in Range(book[SELL]) :
    LET pre == ExchangePre(b, a, marketPrice)
        p == TradePrice(pre.bp, pre.sp)
    IN pre.ok /\ ~mem[b].del /\ ~mem[a].del /\ p >= 1 /\ balance[pre.buyer] >= p

\* C12: no-funds guard and recovery.  When two crossing orders have not traded,
\* the buyer has been credited out-of-band and can now pay for one unit, no
\* call is under way and a sweeper pass is still to come, then a transaction
\* is eventually recorded, unless the orders stop being live first.
C12_Recovery ==
  (AllQuiet /\ CanTrade /\ credits > 0 /\ history = <<>>
     /\ loc[SweeperThread].pc = "wait" /\ sweeps < MaxSweeps)
    ~> (history # <<>> \/ ~CanTrade)

\* after a credit, the sweeper's pass is about to record the first transaction
C12_Witness ==
  /\ loc[SweeperThread].pc = "hist" /\ loc[SweeperThread].tx.sold > 0
  /\ credits > 0 /\ history = <<>>

\* the node is held by a book or mapped by an index
Held(a) ==
  \E s \in BOOLEAN :
    a \in Range(book[s]) \/ \E id \in DOMAIN index[s] : index[s][id] = a

\* C13: sweeper eventual cleanup.  An order that is cancelled or has quantity
\* 0 while a sweeper pass is still to start is eventually in no book and no
\* index; and the erase of a book by a pass removes from book and index every
\* order of that book that is cancelled or has quantity 0.
C13_Cleanup ==
  /\ \A a \in Addrs :
       (Held(a) /\ (mem[a].del \/ mem[a].qty = 0) /\ sweeps < MaxSweeps)
         ~> ~Held(a)
  /\ [][\A s \in BOOLEAN :
          (loc[SweeperThread].pc = (IF s = BUY THEN "wait" ELSE "eraseSell")
             /\ loc'[SweeperThread].pc = (IF s = BUY THEN "eraseSell" ELSE "ulock"))
            => \A a \in Range(book[s]) :
                 (mem[a].del \/ mem[a].qty = 0)
                   => /\ a \notin Range(book'[s])
                      /\ \A id \in DOMAIN index'[s] : index'[s][id] # a]_vars

\* the pass has erased both books; a cancelled order and an exhausted order
\* are gone
C13_Witness ==
  /\ loc[SweeperThread].pc = "ulock"
  /\ \E u \in cancelled : \A a \in Addrs : ~(mem[a].alloc /\ mem[a].uid = u)
  /\ \E i \in 1..Len(history) :
       \A a \in Addrs : ~(mem[a].alloc /\ mem[a].uid = history[i].su)

\* the last k elements of a sequence, oldest first
LastN(h, k) == SubSeq(h, Len(h) - k + 1, Len(h))

\* C14: getLastTransactions(n) returns the min(n, history length) most
\* recently appended transactions, oldest first.
C14_LastTransactions ==
  [][(reply' # reply /\ reply'.op = "getLastTransactions")
       => reply'.out = LastN(Transactions(history), Min(reply'.n, Len(history)))]_vars

\* C15: getLastTransaction returns the most recently appended transaction of
\* a non-empty history and the all-zero transaction of an empty one.
C15_LastTransaction ==
  [][(reply' # reply /\ reply'.op = "getLastTransaction")
       => reply'.out = IF history # <<>>
                       THEN <<Transaction(history[Len(history)])>>
                       ELSE <<[seller |-> 0, buyer |-> 0, sold |-> 0, price |-> 0]>>]_vars

\* C16: history order equals commit order.  Of two recorded transactions the
\* one whose buyer debit succeeded first stands first in the history.
C16_HistoryOrder ==
  \A i, j \in 1..Len(history) :
    history[i].stamp < history[j].stamp => i < j

\* C17: priority order.  Iterating a book yields market orders before limit
\* orders, limit buys in non-increasing and limit sells in non-decreasing
\* price, and of two orders with the same market flag and price the one
\* inserted earlier first.
C17_PriorityOrder ==
  \A s \in BOOLEAN : \A i, j \in 1..Len(book[s]) :
    i < j =>
      LET x == mem[book[s][i]]
          y == mem[book[s][j]]
      IN /\ y.market => x.market
         /\ (~x.market /\ ~y.market) =>
              IF s = BUY THEN x.price >= y.price ELSE x.price <= y.price
         /\ (x.market = y.market /\ x.price = y.price) =>
              (x.ts < y.ts \/ (x.ts = y.ts /\ x.uid < y.uid))

\* C18: prompt shutdown.  Once the destructor has set the flag and notified
\* the condition variable, the sweeper neither sleeps a whole interval again
\* nor starts another pass of update(), and the destructor's join returns.
C18_PromptShutdown ==
  /\ [][shutdown.dtor \in {"join", "done"}
          => ~(loc[SweeperThread].pc = "sleep"
                 /\ loc'[SweeperThread].pc = "eraseSell")]_vars
  /\ (shutdown.dtor = "join") ~> (shutdown.dtor = "done")

\* C19: credit never loses funds.  increaseBalance(v) leaves the balance at
\* b + v, or at the largest unsigned value when b + v is not representable,
\* and never below b.
C19_CreditSaturates ==
  [][ledger'.credited # ledger.credited
       => \E tr \in Traders :
            /\ balance' = [balance EXCEPT
                             ![tr] = Min(@ + ledger'.credited - ledger.credited, UMax)]
            /\ balance'[tr] >= balance[tr]]_vars

\* The threads that hold the lock a thread is waiting for.  emplace and
\* eraseMarkedForDeletion take the index lock and then the structure lock of
\* one book while holding nothing else, and no holder of a structure lock
\* ever asks for an index lock, so the pair is taken in one step.
WaitsOn(t) ==
  LET l == loc[t]
  IN IF l.pc = "lockBuy" THEN {mem[LockOrder(l)[1]].mtx} \ {-1}
     ELSE IF l.pc = "lockSell" THEN {mem[LockOrder(l)[2]].mtx} \ {-1}
     ELSE IF l.pc = "mark" THEN {mem[l.item].mtx} \ {-1}
     ELSE IF l.pc = "eraseSell" THEN idxShared[SELL] \cup ordShared[SELL]
     ELSE {}

\* C20: deadlock freedom.  In no reachable state is there a set of threads
\* each of which waits for a lock held by a thread of the set.
C20_DeadlockFree ==
  \A S \in SUBSET Threads :
    S # {} => \E t \in S : WaitsOn(t) \cap S = {}

\* a thread waits for a lock of a second thread, which waits for a lock too
C20_Witness ==
  \E t, u \in Threads : t # u /\ u \in WaitsOn(t) /\ WaitsOn(u) # {}

\* thread t is inside a loop over the orders of book s
Iterating(t, s) ==
  /\ loc[t].pc \in {"iter", "lockBuy", "lockSell", "quote", "load", "cas",
                    "commit", "hist"}
  /\ \/ loc[t].caller = "update"
     \/ loc[t].caller = "place" /\ s # loc[t].side

\* C21: iteration under lock.  A thread that iterates a book holds the
\* structure lock of that book at least shared; and no insert or sweep changes
\* a book's ordering while a thread iterates it or holds the lock of one of
\* its orders.
C21_IterationUnderLock ==
  /\ [](\A t \in Threads, s \in BOOLEAN : Iterating(t, s) => t \in ordShared[s])
  /\ [][\A s \in BOOLEAN :
          book'[s] # book[s]
            => /\ \A t \in Threads : ~Iterating(t, s)
               /\ \A a \in Range(book[s]) : mem[a].mtx = -1]_vars

\* C22: from the insert of its order until placeOrder returns, no step
\* removes that order from its book.
C22_OwnOrderStays ==
  [][\A t \in ClientThreads :
       (loc[t].caller = "place" /\ loc[t].pc # "idle"
          /\ loc[t].order \in Range(book[loc[t].side]))
         => loc[t].order \in Range(book'[loc[t].side])]_vars

\* the sweeper's step is the erase of book s
Sweeps(s) ==
  /\ loc[SweeperThread].pc = (IF s = BUY THEN "wait" ELSE "eraseSell")
  /\ loc'[SweeperThread].pc = (IF s = BUY THEN "eraseSell" ELSE "ulock")

\* C23: a sweep removes exactly the terminal orders.  The book keeps its
\* live orders in their order and loses the others; the index loses the
\* entries of the removed orders and keeps every other entry.
C23_SweepExact ==
  [][\A s \in BOOLEAN :
       Sweeps(s) =>
         LET live(a) == ~(mem[a].del \/ mem[a].qty = 0)
         IN /\ book'[s] = SelectSeq(book[s], live)
            /\ \A a \in Range(book[s]) :
                 index'[s][mem[a].id] = IF live(a) THEN a ELSE End
            /\ \A id \in DOMAIN index[s] :
                 (\A a \in Range(book[s]) : mem[a].id # id)
                   => index'[s][id] = index[s][id]]_vars

\* a pass has swept a cancelled order away and left a live order behind it
C23_Witness ==
  /\ loc[SweeperThread].pc = "ulock"
  /\ \E u \in cancelled : \A a \in Addrs : ~(mem[a].alloc /\ mem[a].uid = u)
  /\ \E s \in BOOLEAN : \E a \in Range(book[s]) :
       mem[a].qty > 0 /\ ~mem[a].del /\ index[s][mem[a].id] = a

\* C24: index consistency.  In each book the ids the index holds are the ids
\* of the orders of the book, and each entry designates the order of the book
\* that carries its id.
C24_IndexConsistent ==
  \A s \in BOOLEAN :
    /\ {id \in DOMAIN index[s] : index[s][id] # End}
         = {mem[a].id : a \in Range(book[s])}
    /\ \A id \in DOMAIN index[s] :
         index[s][id] # End
           => /\ index[s][id] \in Range(book[s])
              /\ mem[index[s][id]].alloc
              /\ mem[index[s][id]].id = id

\* an insert was rejected, an order cancelled, a pass has swept, and an index
\* holds an entry
C24_Witness ==
  /\ \E t \in ClientThreads : loc[t].resp = "newOrderReject"
  /\ cancelled # {}
  /\ sweeps > 0 /\ loc[SweeperThread].pc # "eraseSell"
  /\ \E s \in BOOLEAN : \E id \in DOMAIN index[s] : index[s][id] # End

\* exchange()'s price test of a pair at the market price now
Crosses(x, y) ==
  LET buy == IF mem[x].side = BUY THEN x ELSE y
      sell == IF mem[x].side = BUY THEN y ELSE x
      buyPrice == IF mem[buy].market THEN marketPrice ELSE mem[buy].price
      sellPrice == IF mem[sell].market THEN marketPrice ELSE mem[sell].price
  IN buyPrice >= sellPrice

\* the orders that follow order a in the iteration of its book
Later(a) ==
  UNION {{book[s][j] : j \in {k \in 1..Len(book[s]) : k > IndexOf(book[s], a)}} :
           s \in {r \in BOOLEAN : a \in Range(book[r])}}

\* thread t, at the head of its loop, leaves the loop over the candidates by
\* the break
Breaks(t) ==
  LET l == loc[t]
  IN /\ l.pc = "iter" /\ loc'[t] # l
     /\ l.item # End /\ l.order # End
     /\ mem[l.order].qty # 0 /\ mem[l.item].qty # 0
     /\ IF l.caller = "place" THEN PlaceBreak(l) ELSE UpdateBreak(l)

\* C25: early termination is sound.  When a loop over the candidates of a
\* book stops at a candidate, no candidate after it passes the matcher's
\* price test against the anchor order at the current market price.
C25_BreakSound ==
  [][\A t \in Threads :
       Breaks(t) => \A c \in Later(loc[t].item) : ~Crosses(loc[t].order, c)]_vars

\* C26: per-order lock order.  A thread that holds the locks of two orders
\* took the lock of the order with the lower exchange id first.
C26_LockByExchangeId ==
  \A t \in Threads :
    loc[t].pc \in {"quote", "load", "cas", "commit"}
      => mem[LockOrder(loc[t])[1]].id <= mem[LockOrder(loc[t])[2]].id

\* C27: the estimator with a missing line.  When a book holds no limit order,
\* updateMarketPrice leaves the market price as it is and dereferences only
\* orders of a book.
C27_MissingLine ==
  [][\A t \in ClientThreads :
       (loc[t].pc = "ump" /\ loc'[t].pc = "lock"
          /\ (FirstLimit(BUY) = End \/ FirstLimit(SELL) = End))
         => /\ marketPrice' = marketPrice
            /\ End \notin Dereferenced]_vars

\* the last order of a book that is no market order, or End
LastLimit(side) ==
  LET s == book[side]
      lim == {i \in 1..Len(s) : ~mem[s[i]].market}
  IN IF lim = {} THEN End ELSE s[CHOOSE i \in lim : \A j \in lim : i >= j]

\* C28: estimator endpoints.  With a limit order in each book, updateMarketPrice
\* draws the demand line through the first and the last limit buy order and
\* the supply line through the first and the last limit sell order, and
\* stores the intersection of these two lines.
C28_Endpoints ==
  [][\A t \in ClientThreads :
       (loc[t].pc = "ump" /\ loc'[t].pc = "lock"
          /\ FirstLimit(BUY) # End /\ FirstLimit(SELL) # End)
         => /\ DemandLine = <<FirstLimit(BUY), LastLimit(BUY)>>
            /\ SupplyLine = <<FirstLimit(SELL), LastLimit(SELL)>>
            /\ marketPrice' \in Estimate(<<FirstLimit(BUY), LastLimit(BUY)>>,
                                         <<FirstLimit(SELL), LastLimit(SELL)>>)]_vars

\* C30: the debit fits the balance.  Whenever exchange() goes on from its
\* quote to the debit, the price p is at least 1 and the amount q * p, taken
\* as an unbounded product, is not 0, does not exceed the buyer's balance
\* read for the quote, and is the unsigned value handed to decreaseBalance:
\* the product does not wrap.
C30_DebitFits ==
  [][\A t \in Threads :
       (loc[t].pc = "quote" /\ loc'[t].pc \in {"load", "commit"})
         => LET q == loc'[t].q
                p == loc[t].p
            IN /\ p >= 1
               /\ q * p > 0
               /\ q * p <= balance[loc[t].buyer]
               /\ q * p < UMod
               /\ loc'[t].v = q * p]_vars

\* a debit of several units at a price above 1, the balance being what
\* limits the quantity
C30_Witness ==
  \E t \in Threads :
    /\ loc[t].pc = "load" /\ loc[t].caller # "api"
    /\ loc[t].q >= 2 /\ loc[t].p >= 2
    /\ loc[t].q < Min(mem[loc[t].xs].qty, mem[loc[t].xb].qty)

\* thread t is inside the retry loop of exchange()
InLoop(t) == loc[t].caller # "api" /\ loc[t].pc \in {"quote", "load", "cas"}

\* C29: the matcher's retry loop.  (a) A debit attempt of exchange() fails only
\* with the buyer's balance below the one read for the quote, and between the
\* quote and the debit the thread itself changes that balance by its own
\* debit only.  (b) The loop is left only from a quote, never from a failed
\* debit, and a requote ends exchange() with the empty transaction only
\* when the balance it read buys nothing at the price.  (c) With the other
\* threads changing the balance finitely often, a thread in the loop leaves it.
C29_RetryLoop ==
  /\ [][\A t \in Threads :
          InLoop(t)
            => /\ (loc[t].pc = "cas" /\ loc'[t].pc = "quote")
                    => /\ loc[t].old < loc[t].bal
                       /\ balance[loc[t].buyer] < loc[t].bal
               /\ (loc[t].pc # "quote" /\ loc'[t] # loc[t]
                      /\ balance'[loc[t].buyer] # balance[loc[t].buyer])
                    => /\ loc[t].pc = "cas" /\ loc'[t].pc = "commit"
                       /\ balance'[loc[t].buyer] = balance[loc[t].buyer] - loc[t].v
               /\ loc[t].pc # "quote" => loc'[t].pc \in {"quote", "load", "cas", "commit"}
               /\ (loc[t].pc = "quote" /\ loc[t].v # 0 /\ loc'[t].pc = "iter")
                    => balance[loc[t].buyer] \div loc[t].p = 0]_vars
  /\ \A t \in Threads : InLoop(t) ~> ~InLoop(t)

\* a debit of exchange() has failed and the thread quotes again
C29_Witness ==
  \E t \in Threads :
    /\ InLoop(t) /\ loc[t].pc = "quote" /\ loc[t].v # 0
    /\ balance[loc[t].buyer] < loc[t].bal

====
